---- MODULE Spec2Model ----
(***************************************************************************)
(* Model of fyre (src/src/main.rs): a tiny_http server whose endpoints are *)
(* Lua scripts.  main() loads config.lua into the route table, binds, and  *)
(* then serves requests one at a time; execute_handler_pipeline runs the   *)
(* middleware / handler / response_hook stages of the routed script.       *)
(***************************************************************************)
EXTENDS Integers, Sequences, FiniteSets, TLC

\* ------------------------------------------------------------------------
\* Bounds of the model
\* ------------------------------------------------------------------------
\* longest configuration script, counted in router/global statements
MaxConfigLen == 2

\* ------------------------------------------------------------------------
\* Program constants
\* ------------------------------------------------------------------------
DEFAULT_SERVER_ADDR == "0.0.0.0:8000"
LUA_SCRIPTS_DIR == "scripts"
CONFIG_FILE == "config.lua"

\* ------------------------------------------------------------------------
\* Lua values as seen through mlua's conversions
\* ------------------------------------------------------------------------
LuaNil == [t |-> "nil", i |-> 0, s |-> ""]
LuaInt(n) == [t |-> "int", i |-> n, s |-> ""]
LuaStr(x) == [t |-> "str", i |-> 0, s |-> x]
LuaBool == [t |-> "bool", i |-> 0, s |-> ""]
\* a Lua integer (64 bits) that does not fit an i32, kept as its decimal text
LuaWide(x) == [t |-> "wide", i |-> 0, s |-> x]

Digit(d) ==
  CASE d = 0 -> "0" [] d = 1 -> "1" [] d = 2 -> "2" [] d = 3 -> "3"
    [] d = 4 -> "4" [] d = 5 -> "5" [] d = 6 -> "6" [] d = 7 -> "7"
    [] d = 8 -> "8" [] OTHER -> "9"

RECURSIVE NatToStr(_)
NatToStr(n) == IF n < 10 THEN Digit(n) ELSE NatToStr(n \div 10) \o Digit(n % 10)

IntToStr(n) == IF n < 0 THEN "-" \o NatToStr(0 - n) ELSE NatToStr(n)

\* get::<String>: a string is itself, a number is coerced to its decimal
\* text, anything else is a conversion error
LuaToString(v) ==
  CASE v.t = "str" -> [ok |-> TRUE, s |-> v.s]
    [] v.t = "int" -> [ok |-> TRUE, s |-> IntToStr(v.i)]
    [] v.t = "wide" -> [ok |-> TRUE, s |-> v.s]
    [] OTHER -> [ok |-> FALSE, s |-> ""]

\* get::<i32>: an integer that fits 32 bits; anything else (nil, a boolean,
\* an integer out of the i32 range) is a conversion error
LuaToI32(v) ==
  IF v.t = "int" THEN [ok |-> TRUE, i |-> v.i] ELSE [ok |-> FALSE, i |-> 0]

\* variant of AsU16: the cast saturates instead of wrapping
AsU16Clamp(n) == IF n < 0 THEN 0 ELSE IF n > 65535 THEN 65535 ELSE n

\* variant of AsU16: a value outside the range of a status code becomes 500
AsU16Checked(n) == IF n \in 0..65535 THEN n ELSE 500

\* `x as u16` on an i32: the low 16 bits
AsU16(n) == n % 65536

\* ------------------------------------------------------------------------
\* The environment at process start: files on disk, argv, config.lua
\* ------------------------------------------------------------------------
\* handler scripts present under scripts/ when the process starts
ScriptsOnDisk == {"scripts/x.lua", "scripts/y.lua"}
\* script names a configuration may mention ("ghost.lua" is not on disk)
ScriptNames == {"x.lua", "y.lua", "ghost.lua"}
RegPaths == {"/a", "/b"}
CliAddr == "127.0.0.1:9000"
CfgAddr == "127.0.0.1:7000"

\* one statement of config.lua
CfgAdd(p, s) == [op |-> "add", a |-> p, b |-> s, v |-> LuaNil]
CfgSetAddr(x) == [op |-> "set_addr", a |-> x, b |-> "", v |-> LuaNil]
CfgGlobal(val) == [op |-> "global", a |-> "", b |-> "", v |-> val]
CfgError == [op |-> "error", a |-> "", b |-> "", v |-> LuaNil]

ConfigOps ==
  {CfgAdd(p, s) : p \in RegPaths, s \in ScriptNames}
    \cup {CfgSetAddr(CfgAddr), CfgError}
    \cup {CfgGlobal(val) : val \in {LuaStr(CfgAddr), LuaInt(8000), LuaBool}}

RECURSIVE SeqsUpTo(_, _)
SeqsUpTo(S, n) ==
  IF n = 0 THEN {<<>>}
  ELSE LET shorter == SeqsUpTo(S, n - 1)
       IN shorter \cup {Append(q, x) : q \in {r \in shorter : Len(r) = n - 1}, x \in S}

ConfigScripts == SeqsUpTo(ConfigOps, MaxConfigLen)

\* argv: the program name, optionally followed by the address argument
ArgChoices == {<<"fyre">>, <<"fyre", CliAddr>>}

EmptyRoutes == [p \in {} |-> ""]

\* variant of RoutesInsert: an existing entry is appended to, not replaced
RoutesInsertAppend(routes, path, script) ==
  [p \in (DOMAIN routes) \cup {path} |->
     IF p # path THEN routes[p]
     ELSE IF path \in DOMAIN routes THEN routes[p] \o script ELSE script]

\* variant of RoutesInsert: a path that has an entry keeps it
RoutesInsertKeepFirst(routes, path, script) ==
  [p \in (DOMAIN routes) \cup {path} |->
     IF p \in DOMAIN routes THEN routes[p] ELSE script]

\* HashMap::insert: the entry for the key is created or overwritten
RoutesInsert(routes, path, script) ==
  [p \in (DOMAIN routes) \cup {path} |-> IF p = path THEN script ELSE routes[p]]

FullScriptPath(script) == LUA_SCRIPTS_DIR \o "/" \o script

PathExists(full) == full \in ScriptsOnDisk

\* variant of RouterAdd: the script file is not looked for
RouterAddUnchecked(routes, path, script) ==
  [ok |-> TRUE, routes |-> RoutesInsert(routes, path, FullScriptPath(script)),
   err |-> ""]

\* router.add(path, script): the closure registered at main.rs:175
RouterAdd(routes, path, script) ==
  LET full_script_path == FullScriptPath(script)
  IN IF ~PathExists(full_script_path)
     THEN [ok |-> FALSE, routes |-> routes,
           err |-> "Handler script not found: " \o full_script_path]
     ELSE [ok |-> TRUE, routes |-> RoutesInsert(routes, path, full_script_path),
           err |-> ""]

\* router.set_addr(addr): only logs
RouterSetAddr(st, addr) == st

\* the Lua state of the configuration run: the route table behind the
\* shared handle and the global SERVER_ADDR
RECURSIVE ExecConfig(_, _)
ExecConfig(code, st) ==
  IF code = <<>> \/ ~st.ok THEN st
  ELSE LET c == Head(code)
           nxt ==
             CASE c.op = "add" ->
                    LET r == RouterAdd(st.routes, c.a, c.b)
                    IN [st EXCEPT !.ok = r.ok, !.routes = r.routes, !.err = r.err]
               [] c.op = "set_addr" -> RouterSetAddr(st, c.a)
               [] c.op = "global" -> [st EXCEPT !.global = c.v]
               [] OTHER -> [st EXCEPT !.ok = FALSE, !.err = "runtime error"]
       IN ExecConfig(Tail(code), nxt)

\* load_lua_config: Err, or Ok(configured_addr); the table is mutated in
\* place, so registrations made before a failure stay in it
LoadLuaConfig(routes, readable, code) ==
  IF ~readable
  THEN [ok |-> FALSE, err |-> "No such file or directory", routes |-> routes,
        has_addr |-> FALSE, addr |-> ""]
  ELSE LET st == ExecConfig(code, [ok |-> TRUE, err |-> "", routes |-> routes,
                                   global |-> LuaNil])
           lua_addr == LuaToString(st.global)
       IN IF ~st.ok
          THEN [ok |-> FALSE, err |-> st.err, routes |-> st.routes,
                has_addr |-> FALSE, addr |-> ""]
          ELSE [ok |-> TRUE, err |-> "", routes |-> st.routes,
                has_addr |-> lua_addr.ok, addr |-> lua_addr.s]


\* ------------------------------------------------------------------------
\* Requests, handler modules and the per-request Lua state
\* ------------------------------------------------------------------------
\* request targets as received: "/A", "/a?x=1" and "/a/" differ from "/a"
Targets == {"/a", "/b", "/A", "/a?x=1", "/a/"}

\* the target without its query string
StripQuery(target) == IF target = "/a?x=1" THEN "/a" ELSE target

\* variant of RouteLookup: the query string is cut off before the lookup
RouteLookupNoQuery(routes, route) ==
  IF StripQuery(route) \in DOMAIN routes
  THEN [found |-> TRUE, script_path |-> routes[StripQuery(route)]]
  ELSE [found |-> FALSE, script_path |-> ""]

\* routes.lock().unwrap().get(&route).cloned()
RouteLookup(routes, route) ==
  IF route \in DOMAIN routes
  THEN [found |-> TRUE, script_path |-> routes[route]]
  ELSE [found |-> FALSE, script_path |-> ""]

\* variant of RoutesAfterLookup: the entry is taken out of the table
RoutesAfterRemove(routes, route) ==
  [p \in (DOMAIN routes) \ {route} |-> routes[p]]

\* the table after main.rs:106: get() under the lock only reads it
RoutesAfterLookup(routes, route) == routes

\* what reading and evaluating the script yields at request time: the file
\* is read afresh on every request, so this is an input of each request
LoadOutcomes == {"table", "unreadable", "eval_error", "not_table"}
NoModule == [middleware |-> FALSE, handler |-> FALSE, response_hook |-> FALSE]
Modules == [middleware : BOOLEAN, handler : BOOLEAN, response_hook : BOOLEAN]

HdrXTest == "X-Test"
HdrBad == "X-Bad\n"
HdrFlag == "X-Flag"
EmptyHeaders == [k \in {} |-> LuaNil]

\* res_table as created at main.rs:279-282
DefaultResponse ==
  [status |-> LuaInt(200), body |-> LuaStr(""),
   headers_is_table |-> TRUE, headers |-> EmptyHeaders]

\* the interpreter state a pipeline run works on: the response table and a
\* script-defined global (G) that stages may set and read
FreshLua == [res |-> DefaultResponse, g |-> LuaNil]

\* variant of LuaNew: one interpreter is kept and used for every request
LuaReuse(prev) == prev

\* Lua::new() and the table set-up of main.rs:257-287; prev is the state of
\* the interpreter of the previous pipeline run, which is not reused
LuaNew(prev) == FreshLua

\* what one call of a stage function does to the Lua state
Effects ==
  {"nop", "status201", "status403", "statusNil", "statusBig", "statusNeg", "statusWide",
   "created", "bodyNil", "bodyNum", "hdrBad", "hdrFlag", "hdrsNil", "stash", "recall"}

SetHeader(lua, k, v) ==
  IF lua.res.headers_is_table
  THEN [lua |-> [lua EXCEPT !.res.headers =
                   [h \in (DOMAIN lua.res.headers) \cup {k} |->
                      IF h = k THEN v ELSE lua.res.headers[h]]],
        err |-> FALSE, msg |-> ""]
  ELSE [lua |-> lua, err |-> TRUE, msg |-> "attempt to index a nil value"]

\* the writes of effect e, in script order, up to the first Lua error
ApplyEffect(lua, e, path) ==
  LET ok(l) == [lua |-> l, err |-> FALSE, msg |-> ""]
  IN CASE e = "status201" -> ok([lua EXCEPT !.res.status = LuaInt(201)])
       [] e = "status403" -> ok([lua EXCEPT !.res.status = LuaInt(403)])
       [] e = "statusNil" -> ok([lua EXCEPT !.res.status = LuaNil])
       [] e = "statusBig" -> ok([lua EXCEPT !.res.status = LuaInt(65736)])
       [] e = "statusNeg" -> ok([lua EXCEPT !.res.status = LuaInt(0 - 1)])
       [] e = "statusWide" -> ok([lua EXCEPT !.res.status = LuaWide("4294967496")])
       [] e = "created" ->
            SetHeader([lua EXCEPT !.res.status = LuaInt(201),
                                  !.res.body = LuaStr("created")],
                      HdrXTest, LuaStr("1"))
       [] e = "bodyNil" -> ok([lua EXCEPT !.res.body = LuaNil])
       [] e = "bodyNum" -> ok([lua EXCEPT !.res.body = LuaInt(42)])
       [] e = "hdrBad" -> SetHeader(lua, HdrBad, LuaStr("v"))
       [] e = "hdrFlag" -> SetHeader(lua, HdrFlag, LuaBool)
       [] e = "hdrsNil" ->
            ok([lua EXCEPT !.res.headers_is_table = FALSE,
                           !.res.headers = EmptyHeaders])
       [] e = "stash" -> ok([lua EXCEPT !.g = LuaStr(path)])
       [] e = "recall" ->
            IF lua.g = LuaNil THEN ok(lua) ELSE ok([lua EXCEPT !.res.body = lua.g])
       [] OTHER -> ok(lua)

\* variant of StageCall: a stage that ends in an error leaves no write behind
StageCallRollback(lua, e, raises, path) ==
  LET r == ApplyEffect(lua, e, path)
  IN IF r.err THEN [r EXCEPT !.lua = lua]
     ELSE IF raises THEN [lua |-> lua, err |-> TRUE, msg |-> "boom"]
     ELSE r

\* f.call::<()>((req_table, res_table)): the stage performs its writes and
\* returns, or raises after them (raises), or fails inside them
StageCall(lua, e, raises, path) ==
  LET r == ApplyEffect(lua, e, path)
  IN IF r.err THEN r
     ELSE IF raises THEN [lua |-> r.lua, err |-> TRUE, msg |-> "boom"]
     ELSE r

\* Header::from_bytes(key, value).is_ok(): the HTTP library's validity test
HeaderFromBytesOk(key, value) == key # HdrBad

NoResponse == [kind |-> "none", src |-> "", status |-> 0, body |-> "", headers |-> {}]

\* Response::from_string("404 Not Found").with_status_code(404)
NotFoundResponse ==
  [kind |-> "404", src |-> "", status |-> 404, body |-> "404 Not Found", headers |-> {}]

\* main.rs:115-118: Response::from_string(format!("Server Error: {}", e))
\* .with_status_code(500); src names the place the pipeline failed
ErrResponse(src, e) ==
  [kind |-> "fatal", src |-> src, status |-> 500,
   body |-> "Server Error: " \o e, headers |-> {}]

\* variant of OnInvalidHeader: the pair's error is propagated
OnInvalidHeaderAbort(response) == ErrResponse("finalize", "invalid header")

\* main.rs:366-368: a pair that forms no valid header is only logged; the
\* response built so far stays as it is and the loop goes on
OnInvalidHeader(response) == response

\* variant of FinalizeResponse: what cannot be read is left out of the
\* response instead of failing the request
FinalizeResponseLenient(res) ==
  LET st == LuaToI32(res.status)
      body_string == LuaToString(res.body)
      good == {h \in DOMAIN res.headers :
                 /\ LuaToString(res.headers[h]).ok
                 /\ HeaderFromBytesOk(h, LuaToString(res.headers[h]).s)}
  IN [kind |-> "ok", src |-> "",
      status |-> AsU16(IF st.ok THEN st.i ELSE 500),
      body |-> IF body_string.ok THEN body_string.s ELSE "",
      headers |-> {<<k, LuaToString(res.headers[k]).s>> : k \in good}]

\* main.rs:347-371: the response table read back into a native response
FinalizeResponse(res) ==
  LET st == LuaToI32(res.status)
      final_status == IF st.ok THEN st.i ELSE 500
      body_string == LuaToString(res.body)
      bad_pairs == {k \in DOMAIN res.headers : ~LuaToString(res.headers[k]).ok}
      valid == {h \in DOMAIN res.headers :
                  HeaderFromBytesOk(h, LuaToString(res.headers[h]).s)}
      response == [kind |-> "ok", src |-> "", status |-> AsU16(final_status),
                   body |-> body_string.s,
                   headers |-> {<<k, LuaToString(res.headers[k]).s>> : k \in valid}]
  IN IF ~body_string.ok
     THEN ErrResponse("finalize", "Failed to get body from response table: error converting Lua value to String")
     ELSE IF ~res.headers_is_table
     THEN ErrResponse("finalize", "error converting Lua nil to table")
     ELSE IF bad_pairs # {}
     THEN ErrResponse("finalize", "error converting Lua boolean to String")
     ELSE IF valid # DOMAIN res.headers THEN OnInvalidHeader(response)
     ELSE response


\* ------------------------------------------------------------------------
\* State
\* ------------------------------------------------------------------------
VARIABLES
  pc,              \* where main() is: start, loaded, serving, the pipeline
                   \* states prepare/load/before/decide/after/finalize,
                   \* respond, exit
  args,            \* std::env::args()
  config_readable, \* whether fs::read_to_string(CONFIG_FILE) succeeds
  config_code,     \* the statements of config.lua that load_lua_config is
                   \* still to read and run
  routes,          \* RoutesMap
  server_addr,     \* main's server_addr
  load_result,     \* what load_lua_config returned: "pending" before the
                   \* call, "ok", or the text of its error
  lua_addr_option, \* the address load_lua_config returned, if any
  listener,        \* the address of the bound socket, "" while none
  route,           \* request.url() of the request being served
  script_path,     \* the script the route table gave for it
  module,          \* module_table: which stage functions it defines
  lua,             \* the state of the interpreter of the pipeline run under
                   \* way; between runs, that of the last run, which the
                   \* code has dropped and the next run replaces
  calls,           \* how often each stage was invoked for this request
  seen_status,     \* the value of response.status DECIDE read
  raised,          \* the error each stage call ended with, "" for none
  load_outcome,    \* how reading and evaluating the script ended, "" before
  effect,          \* what each stage call of this request did, "" for none
  result,          \* the response main is about to send
  delivery         \* how request.respond ended for the last request:
                   \* "none" while none was attempted, "sent", "failed"

vars ==
  <<pc, args, config_readable, config_code, routes, server_addr, load_result,
    lua_addr_option, listener, route, script_path, module, lua, calls, seen_status, raised,
    load_outcome, effect, result, delivery>>

NoCalls == [middleware |-> 0, handler |-> 0, response_hook |-> 0]
NoErrors == [middleware |-> "", handler |-> "", response_hook |-> ""]
NoEffects == [middleware |-> "", handler |-> "", response_hook |-> ""]

startup_vars == <<args, config_readable, config_code, routes, server_addr,
                  load_result, lua_addr_option, listener>>

NoAddr == [has |-> FALSE, addr |-> ""]
request_vars == <<route, script_path, module, lua, calls, seen_status, raised,
                  load_outcome, effect, result, delivery>>

Init ==
  /\ pc = "start"
  /\ args \in ArgChoices
  /\ config_readable \in BOOLEAN
  /\ config_code \in ConfigScripts
  /\ routes = EmptyRoutes
  /\ server_addr = DEFAULT_SERVER_ADDR
  /\ load_result = "pending"
  /\ lua_addr_option = NoAddr
  /\ listener = ""
  /\ route = ""
  /\ script_path = ""
  /\ module = NoModule
  /\ lua = FreshLua
  /\ calls = NoCalls
  /\ seen_status = LuaNil
  /\ raised = NoErrors
  /\ load_outcome = ""
  /\ effect = NoEffects
  /\ result = NoResponse
  /\ delivery = "none"

\* ------------------------------------------------------------------------
\* main(): start-up
\* ------------------------------------------------------------------------
\* variant of ResolveAddr: the configured address is taken whenever there is one
ResolveAddrConfigFirst(argv, has_addr, addr) ==
  IF has_addr THEN addr
  ELSE IF Len(argv) > 1 THEN argv[2] ELSE DEFAULT_SERVER_ADDR

\* main.rs:71-86: the address main ends up with after the configuration
\* was loaded successfully
ResolveAddr(argv, has_addr, addr) ==
  LET after_cli == IF Len(argv) > 1 THEN argv[2] ELSE DEFAULT_SERVER_ADDR
  IN IF Len(argv) <= 1 /\ has_addr THEN addr ELSE after_cli

\* main.rs:78-92: where main goes after load_lua_config returned
AfterLoad(ok) == IF ok THEN "loaded" ELSE "exit"

\* main.rs:68-92
LoadConfig ==
  /\ pc = "start"
  /\ LET r == LoadLuaConfig(routes, config_readable, config_code)
     IN /\ routes' = r.routes
        /\ load_result' = IF r.ok THEN "ok" ELSE r.err
        /\ lua_addr_option' = [has |-> r.has_addr, addr |-> r.addr]
        /\ server_addr' = IF r.ok THEN ResolveAddr(args, r.has_addr, r.addr)
                          ELSE ResolveAddr(args, FALSE, "")
        /\ pc' = AfterLoad(r.ok)
  /\ config_code' = <<>>
  /\ UNCHANGED <<args, config_readable, listener>>
  /\ UNCHANGED request_vars

\* main.rs:99-100: Server::http(&server_addr) succeeds or the process
\* exits with the bind error
Bind ==
  /\ pc = "loaded"
  /\ \E bind_ok \in BOOLEAN :
       IF bind_ok
       THEN listener' = server_addr /\ pc' = "serving"
       ELSE listener' = "" /\ pc' = "exit"
  /\ UNCHANGED <<args, config_readable, config_code, routes, server_addr,
                 load_result, lua_addr_option>>
  /\ UNCHANGED request_vars

\* ------------------------------------------------------------------------
\* main(): the request loop and execute_handler_pipeline
\* ------------------------------------------------------------------------
\* main.rs:103-109 and 124-126: take a request and look its target up
Dispatch ==
  /\ pc = "serving"
  /\ \E target \in Targets :
       LET hit == RouteLookup(routes, target)
       IN /\ route' = target
          /\ script_path' = hit.script_path
          /\ routes' = RoutesAfterLookup(routes, target)
          /\ IF hit.found
             THEN pc' = "prepare" /\ result' = NoResponse
             ELSE pc' = "respond" /\ result' = NotFoundResponse
  /\ module' = NoModule
  /\ calls' = NoCalls
  /\ seen_status' = LuaNil
  /\ raised' = NoErrors
  /\ delivery' = "none"
  /\ load_outcome' = ""
  /\ effect' = NoEffects
  /\ UNCHANGED lua
  /\ UNCHANGED <<args, config_readable, config_code, server_addr, load_result,
                 lua_addr_option, listener>>

\* variant of NextStage: the response hook runs before DECIDE and MAIN
NextStageHookFirst(stage) ==
  CASE stage = "prepare" -> "load"
    [] stage = "load" -> "before"
    [] stage = "before" -> "after"
    [] stage = "after" -> "decide"
    [] stage = "decide" -> "finalize"
    [] OTHER -> "respond"

\* the order of the blocks of execute_handler_pipeline (main.rs:257-371)
NextStage(stage) ==
  CASE stage = "prepare" -> "load"
    [] stage = "load" -> "before"
    [] stage = "before" -> "decide"
    [] stage = "decide" -> "after"
    [] stage = "after" -> "finalize"
    [] OTHER -> "respond"

\* main.rs:257-287: a new interpreter, the request body read, the request
\* and response tables
Prepare ==
  /\ pc = "prepare"
  /\ \E body_read_ok \in BOOLEAN :
       IF body_read_ok
       THEN /\ lua' = LuaNew(lua)
            /\ pc' = NextStage("prepare")
            /\ UNCHANGED result
       ELSE /\ lua' = LuaNew(lua)
            /\ pc' = "respond"
            /\ result' = ErrResponse("body", "Failed to read request body: io error")
  /\ UNCHANGED <<route, script_path, module, calls, seen_status, raised,
                 load_outcome, effect, delivery>>
  /\ UNCHANGED startup_vars

\* what the top-level code of a handler script may do to the globals while
\* it is evaluated (main.rs:286-287 expose them before main.rs:298-301)
LoadEffects == {"nop", "status403"}

\* variant of LoadFails: a chunk that raises or returns no table counts as a
\* module without functions
LoadFailsUnreadableOnly(outcome) == outcome = "unreadable"

\* main.rs:290-304: the two `?` of LOAD
LoadFails(outcome) == outcome # "table"

\* the error LOAD returns
LoadError(outcome, path) ==
  IF outcome = "unreadable"
  THEN "Failed to read handler script " \o path \o ": No such file or directory"
  ELSE "Handler script failed to return a table: " \o outcome

\* main.rs:289-304: LOAD
LoadScript ==
  /\ pc = "load"
  /\ \E outcome \in LoadOutcomes, e \in LoadEffects :
       /\ load_outcome' = outcome
       /\ lua' = IF outcome = "unreadable" THEN lua
                 ELSE ApplyEffect(lua, e, route).lua
       /\ IF LoadFails(outcome)
          THEN /\ pc' = "respond"
               /\ result' = ErrResponse("load", LoadError(outcome, script_path))
               /\ UNCHANGED module
          ELSE /\ \E m \in Modules : module' = m
               /\ pc' = NextStage("load")
               /\ UNCHANGED result
  /\ UNCHANGED <<route, script_path, calls, seen_status, raised, effect, delivery>>
  /\ UNCHANGED startup_vars

\* main.rs:309-313: BEFORE
Before ==
  /\ pc = "before"
  /\ IF module.middleware
     THEN \E e \in Effects, raises \in BOOLEAN :
            LET r == StageCall(lua, e, raises, route)
            IN /\ lua' = r.lua
               /\ calls' = [calls EXCEPT !.middleware = @ + 1]
               /\ raised' = [raised EXCEPT !.middleware = r.msg]
               /\ effect' = [effect EXCEPT !.middleware = e]
     ELSE UNCHANGED <<lua, calls, raised, effect>>
  /\ pc' = NextStage("before")
  /\ UNCHANGED <<route, script_path, module, seen_status, load_outcome, result,
                 delivery>>
  /\ UNCHANGED startup_vars

\* variant of CurrentStatus: a status that cannot be read counts as 500
CurrentStatusStrict(res) ==
  LET st == LuaToI32(res.status) IN IF st.ok THEN st.i ELSE 500

\* main.rs:316: res_table.get("status").unwrap_or(200)
CurrentStatus(res) ==
  LET st == LuaToI32(res.status) IN IF st.ok THEN st.i ELSE 200

\* main.rs:316-338: DECIDE and MAIN
DecideMain ==
  /\ pc = "decide"
  /\ seen_status' = lua.res.status
  /\ IF CurrentStatus(lua.res) = 200 /\ module.handler
     THEN \E e \in Effects, raises \in BOOLEAN :
            LET r == StageCall(lua, e, raises, route)
            IN /\ lua' = r.lua
               /\ calls' = [calls EXCEPT !.handler = @ + 1]
               /\ raised' = [raised EXCEPT !.handler = r.msg]
               /\ effect' = [effect EXCEPT !.handler = e]
               /\ IF r.err
                  THEN pc' = "respond" /\ result' = ErrResponse("handler", r.msg)
                  ELSE pc' = NextStage("decide") /\ UNCHANGED result
     ELSE /\ pc' = NextStage("decide")
          /\ UNCHANGED <<lua, calls, raised, effect, result>>
  /\ UNCHANGED <<route, script_path, module, load_outcome, delivery>>
  /\ UNCHANGED startup_vars

\* main.rs:341-345: AFTER
After ==
  /\ pc = "after"
  /\ IF module.response_hook
     THEN \E e \in Effects, raises \in BOOLEAN :
            LET r == StageCall(lua, e, raises, route)
            IN /\ lua' = r.lua
               /\ calls' = [calls EXCEPT !.response_hook = @ + 1]
               /\ raised' = [raised EXCEPT !.response_hook = r.msg]
               /\ effect' = [effect EXCEPT !.response_hook = e]
     ELSE UNCHANGED <<lua, calls, raised, effect>>
  /\ pc' = NextStage("after")
  /\ UNCHANGED <<route, script_path, module, seen_status, load_outcome, result,
                 delivery>>
  /\ UNCHANGED startup_vars

\* main.rs:348-371 (and 115-118 when reading the table back fails): FINALIZE
Finalize ==
  /\ pc = "finalize"
  /\ result' = FinalizeResponse(lua.res)
  /\ pc' = NextStage("finalize")
  /\ UNCHANGED <<route, script_path, module, lua, calls, seen_status, raised,
                 load_outcome, effect, delivery>>
  /\ UNCHANGED startup_vars

\* variant of AfterRespond: a fatal pipeline error ends the loop
AfterRespondCrash(kind, delivered) == IF kind = "fatal" THEN "exit" ELSE "serving"

\* variant of AfterRespond: a failed delivery is propagated out of main
AfterRespondStrict(kind, delivered) == IF delivered THEN "serving" ELSE "exit"

\* where the loop goes after request.respond returned, for a response of
\* this kind and whether or not respond delivered it
AfterRespond(kind, delivered) == "serving"

\* main.rs:111-113, 119-121, 127-129: request.respond(..); a delivery
\* failure is logged and the loop takes the next request
Respond ==
  /\ pc = "respond"
  /\ \E delivered \in BOOLEAN :
       /\ delivery' = IF delivered THEN "sent" ELSE "failed"
       /\ pc' = AfterRespond(result.kind, delivered)
  /\ route' = ""
  /\ script_path' = ""
  /\ module' = NoModule
  /\ calls' = NoCalls
  /\ seen_status' = LuaNil
  /\ raised' = NoErrors
  /\ load_outcome' = ""
  /\ effect' = NoEffects
  /\ result' = NoResponse
  /\ UNCHANGED lua
  /\ UNCHANGED startup_vars

Next ==
  \/ LoadConfig
  \/ Bind
  \/ Dispatch
  \/ Prepare
  \/ LoadScript
  \/ Before
  \/ DecideMain
  \/ After
  \/ Finalize
  \/ Respond

Spec == Init /\ [][Next]_vars

\* the steps of one request, from the set-up of the interpreter to respond
RequestStep ==
  \/ Prepare
  \/ LoadScript
  \/ Before
  \/ DecideMain
  \/ After
  \/ Finalize
  \/ Respond

\* The request loop runs on one thread and every step of a request is a
\* call that returns (the script load, each stage, respond), so a request
\* that has been taken from the listener is carried through; nothing
\* obliges a client to send a request.
SpecLive == Init /\ [][Next]_vars /\ WF_vars(RequestStep)


\* ------------------------------------------------------------------------
\* load_lua_config run twice on the same table (re-running the load)
\* ------------------------------------------------------------------------
FirstLoad ==
  /\ pc = "start"
  /\ LET r == LoadLuaConfig(routes, config_readable, config_code)
     IN /\ routes' = r.routes
        /\ load_result' = IF r.ok THEN "ok" ELSE r.err
        /\ lua_addr_option' = [has |-> r.has_addr, addr |-> r.addr]
  /\ pc' = "loaded"
  /\ UNCHANGED <<args, config_readable, config_code, server_addr, listener>>
  /\ UNCHANGED request_vars

SecondLoad ==
  /\ pc = "loaded"
  /\ LET r == LoadLuaConfig(routes, config_readable, config_code)
     IN /\ routes' = r.routes
        /\ load_result' = IF r.ok THEN "ok" ELSE r.err
        /\ lua_addr_option' = [has |-> r.has_addr, addr |-> r.addr]
  /\ pc' = "reloaded"
  /\ UNCHANGED <<args, config_readable, config_code, server_addr, listener>>
  /\ UNCHANGED request_vars

NextReload ==
  \/ FirstLoad
  \/ SecondLoad

SpecReload == Init /\ [][NextReload]_vars

\* ------------------------------------------------------------------------
\* Properties
\* ------------------------------------------------------------------------
PipelinePcs == {"load", "before", "decide", "after", "finalize"}

\* C1: a request whose target is, as a whole string, a key of the route
\* table runs the pipeline with the script registered for it; any other
\* target (other case, a query string, a trailing slash) loads and runs
\* nothing and is answered 404 "404 Not Found".
C1_ExactRouting ==
  /\ pc \in PipelinePcs \cup {"prepare"} =>
       route \in DOMAIN routes /\ script_path = routes[route]
  /\ pc = "respond" /\ route \in DOMAIN routes =>
       result.kind # "404" /\ script_path = routes[route]
  /\ pc = "respond" /\ route \notin DOMAIN routes =>
       /\ result.status = 404
       /\ result.body = "404 Not Found"
       /\ script_path = ""
       /\ module = NoModule
       /\ calls = NoCalls

C1_Witness ==
  /\ pc = "respond"
  /\ route = "/a?x=1"
  /\ "/a" \in DOMAIN routes
  /\ result.status = 404
  /\ result.body = "404 Not Found"

\* C2: the handler is invoked only if the value middleware left in
\* response.status, the one DECIDE read, is 200.
C2_HandlerOnlyAfter200 == calls.handler > 0 => seen_status = LuaInt(200)

\* C3: a request whose module defines response_hook has had it invoked
\* exactly once by the time the response is sent.
C3_HookExactlyOnce ==
  pc = "respond" /\ module.response_hook => calls.response_hook = 1

\* C4: a handler error is answered with status 500 and body "Server Error: "
\* followed by the error text, whatever the stages wrote to the response
\* table, and after that response the loop is back at accepting requests
\* with the route table, the socket and the per-request state as they are
\* after any other request.
C4_HandlerErrorIs500 ==
  [][/\ raised'.handler # "" =>
          /\ pc' = "respond"
          /\ result'.status = 500
          /\ result'.body = "Server Error: " \o raised'.handler
          /\ result'.headers = {}
     /\ pc = "respond" /\ raised.handler # "" =>
          /\ pc' \in {"respond", "serving"}
          /\ UNCHANGED <<routes, listener, server_addr>>
          /\ pc' = "serving" =>
               /\ route' = ""
               /\ script_path' = ""
               /\ module' = NoModule
               /\ calls' = NoCalls
               /\ raised' = NoErrors
               /\ result' = NoResponse]_vars

C4_Witness ==
  /\ pc = "respond"
  /\ raised.handler = "boom"
  /\ lua.res.status = LuaInt(201)
  /\ lua.res.body = LuaStr("created")
  /\ HdrXTest \in DOMAIN lua.res.headers
  /\ result.status = 500
  /\ result.body = "Server Error: boom"

\* C5 as stated: on normal completion the status code equals
\* response.status, the body equals response.body and every valid header
\* pair of response.headers is in the response.
C5_ResponseIsState ==
  pc = "respond" /\ result.kind = "ok" =>
    /\ lua.res.status = LuaInt(result.status)
    /\ LuaToString(lua.res.body).s = result.body
    /\ \A k \in DOMAIN lua.res.headers :
         k # HdrBad => <<k, lua.res.headers[k].s>> \in result.headers

\* C5 as amended: on normal completion the status code equals
\* response.status when that is an integer in 0..65535, is that integer
\* modulo 65536 when it is another 32-bit integer, and is 500 when the
\* status is missing or not readable as a 32-bit integer; the body is
\* response.body read as a string and the headers are exactly the pairs of
\* response.headers that form a valid header.
C5_ResponseIsStateRead ==
  pc = "respond" /\ result.kind = "ok" =>
    /\ lua.res.status.t = "int" /\ lua.res.status.i \in 0..65535 =>
         result.status = lua.res.status.i
    /\ lua.res.status.t = "int" /\ lua.res.status.i \notin 0..65535 =>
         result.status = lua.res.status.i % 65536
    /\ lua.res.status.t # "int" => result.status = 500
    /\ lua.res.body.t = "str" => result.body = lua.res.body.s
    /\ lua.res.body = LuaInt(42) => result.body = "42"
    /\ lua.res.body.t \in {"str", "int"}
    /\ result.headers =
         {<<k, lua.res.headers[k].s>> : k \in (DOMAIN lua.res.headers) \ {HdrBad}}

C5_Witness ==
  /\ pc = "respond"
  /\ result.kind = "ok"
  /\ calls.handler = 1
  /\ result.status = 201
  /\ result.body = "created"
  /\ <<HdrXTest, "1">> \in result.headers

HasMissingScript(code) ==
  \E i \in 1..Len(code) : code[i].op = "add" /\ ~PathExists(FullScriptPath(code[i].b))

HasScriptError(code) == \E i \in 1..Len(code) : code[i].op = "error"

\* C6: a configuration that registers a script that is not on disk, that
\* cannot be read or that raises makes load_lua_config fail, and after a
\* failed load the process is at its exit without a socket and never in
\* the request loop.
C6_ConfigFailureNeverBinds ==
  [][/\ pc = "start" /\ pc' # "start"
          /\ (~config_readable \/ HasMissingScript(config_code)
                \/ HasScriptError(config_code))
          => load_result' \notin {"pending", "ok"}
     /\ load_result' \notin {"pending", "ok"} => pc' = "exit" /\ listener' = ""]_vars

C6_Witness ==
  /\ pc = "exit"
  /\ load_result = "Handler script not found: scripts/ghost.lua"
  /\ DOMAIN routes = {"/a"}
  /\ listener = ""

FinalizeReadable(res) ==
  /\ res.body.t \in {"str", "int", "wide"}
  /\ res.headers_is_table
  /\ \A k \in DOMAIN res.headers : res.headers[k].t \in {"str", "int", "wide"}

\* C7: when FINALIZE meets a pair that forms no valid header, that pair is
\* left out and nothing else changes: the response is still built, every
\* other pair is in it, and its body and status are those of the response
\* table.
C7_InvalidHeaderDropped ==
  /\ pc = "respond"
  /\ result.kind = "ok" \/ result.src = "finalize"
  /\ HdrBad \in DOMAIN lua.res.headers
  /\ FinalizeReadable(lua.res)
  => /\ result.kind = "ok"
     /\ \A h \in result.headers : h[1] # HdrBad
     /\ \A k \in (DOMAIN lua.res.headers) \ {HdrBad} :
          <<k, lua.res.headers[k].s>> \in result.headers
     /\ lua.res.body.t = "str" => result.body = lua.res.body.s
     /\ lua.res.status.t = "int" /\ lua.res.status.i \in 0..65535 =>
          result.status = lua.res.status.i

C7_Witness ==
  /\ pc = "respond"
  /\ result.kind = "ok"
  /\ DOMAIN lua.res.headers = {HdrBad, HdrXTest}
  /\ result.headers = {<<HdrXTest, "1">>}
  /\ result.body = "created"
  /\ result.status = 201

\* C8: nothing a request's stages wrote is visible to another request: the
\* value a stage saved in the interpreter and the body a stage copied from
\* it always come from the request being served, and so does the body of
\* the response sent.
C8_ResponseStateIsolated ==
  pc \in PipelinePcs \/ (pc = "respond" /\ result.kind \in {"ok", "fatal"}) =>
    /\ lua.g # LuaNil => lua.g = LuaStr(route)
    /\ lua.res.body.s \in Targets => lua.res.body.s = route
    /\ result.kind = "ok" /\ result.body \in Targets => result.body = route
    /\ pc = "load" => lua.res = DefaultResponse

\* a request for /b is taken while the interpreter of the request before
\* it, for /a, ended holding what that request's stages saved and wrote
C8_Witness ==
  /\ pc = "prepare"
  /\ route = "/b"
  /\ lua.g = LuaStr("/a")
  /\ lua.res.body = LuaStr("/a")
  /\ lua.res.status = LuaInt(403)

\* C9: running load_lua_config again on the table the first run produced
\* leaves the path-to-script mapping as the first run left it.
C9_ReloadIdempotent == [][pc = "loaded" /\ pc' = "reloaded" => routes' = routes]_vars

C9_Witness ==
  /\ pc = "reloaded"
  /\ config_code = <<CfgAdd("/a", "x.lua"), CfgAdd("/a", "y.lua")>>
  /\ config_readable
  /\ routes = [p \in {"/a"} |-> "scripts/y.lua"]

WithoutSetAddr(code) == SelectSeq(code, LAMBDA c : c.op # "set_addr")

\* the value the configuration leaves in the global SERVER_ADDR
LastGlobal(code) ==
  LET idx == {i \in 1..Len(code) : code[i].op = "global"}
  IN IF idx = {} THEN LuaNil
     ELSE code[CHOOSE i \in idx : \A j \in idx : j <= i].v

AddrByPrecedence(argv, code) ==
  LET g == LastGlobal(code)
  IN IF Len(argv) > 1 THEN argv[2]
     ELSE IF g.t = "str" THEN g.s
     ELSE IF g.t = "int" THEN IntToStr(g.i)
     ELSE DEFAULT_SERVER_ADDR

\* C10: the address bound is the startup argument if there is one, else the
\* SERVER_ADDR the configuration set, else 0.0.0.0:8000; and the address
\* and the route table are what they would be without the configuration's
\* router.set_addr calls.
C10_AddressPrecedence ==
  [][/\ pc = "start" /\ pc' = "loaded" =>
          /\ server_addr' = AddrByPrecedence(args, WithoutSetAddr(config_code))
          /\ routes' = LoadLuaConfig(routes, config_readable,
                                     WithoutSetAddr(config_code)).routes
     /\ pc = "loaded" /\ pc' = "serving" =>
          /\ listener' = server_addr
          /\ UNCHANGED routes]_vars

C10_Witness ==
  /\ pc = "serving"
  /\ Len(args) > 1
  /\ lua_addr_option = [has |-> TRUE, addr |-> CfgAddr]
  /\ listener = CliAddr

\* C11: once the configuration pass is over and the server holds its socket,
\* no step changes the route table: not a lookup that misses, not a request
\* answered from the pipeline, not a fatal pipeline error, not a response
\* that could not be delivered.
C11_RoutesFrozenWhileServing == [][listener # "" => routes' = routes]_vars

C11_Witness ==
  /\ pc = "serving"
  /\ listener # ""
  /\ delivery = "failed"
  /\ DOMAIN routes = {"/a", "/b"}

\* the statements of the configuration that run: those before the first one
\* that raises
ExecutedLen(code) ==
  LET bad == {i \in 1..Len(code) :
                \/ code[i].op = "error"
                \/ code[i].op = "add" /\ FullScriptPath(code[i].b) \notin ScriptsOnDisk}
  IN IF bad = {} THEN Len(code)
     ELSE (CHOOSE i \in bad : \A j \in bad : i <= j) - 1

\* the positions of the registrations of a path among the first n statements
AddsOf(code, n, path) == {i \in 1..n : code[i].op = "add" /\ code[i].a = path}

\* C12: after a run of the configuration the table has one entry per
\* registered path, the entry is the script of the last registration of that
\* path that succeeded, paths not registered in this run keep their entry,
\* and a configuration whose registrations all name scripts on disk, however
\* often it registers one path, ends without error.
C12_LastRegistrationWins ==
  [][(pc = "start" \/ pc = "loaded") /\ pc' # pc /\ config_readable =>
      (LET n == ExecutedLen(config_code)
           registered == {config_code[i].a : i \in {j \in 1..n : config_code[j].op = "add"}}
       IN /\ DOMAIN routes' = (DOMAIN routes) \cup registered
          /\ \A p \in DOMAIN routes' :
               LET adds == AddsOf(config_code, n, p)
               IN routes'[p] =
                    IF adds = {} THEN routes[p]
                    ELSE "scripts/" \o
                           config_code[CHOOSE i \in adds : \A j \in adds : j <= i].b
          /\ n = Len(config_code) => load_result' = "ok")]_vars

C12_Witness ==
  /\ pc = "loaded"
  /\ config_code = <<CfgAdd("/a", "x.lua"), CfgAdd("/a", "y.lua")>>
  /\ load_result = "ok"
  /\ DOMAIN routes = {"/a"}
  /\ routes["/a"] = "scripts/y.lua"

\* the position of a pipeline state in the order LOAD, BEFORE, DECIDE (with
\* MAIN), AFTER, FINALIZE, between the set-up of the request and the answer
StageRank(p) ==
  CASE p = "prepare" -> 1
    [] p = "load" -> 2
    [] p = "before" -> 3
    [] p = "decide" -> 4
    [] p = "after" -> 5
    [] p = "finalize" -> 6
    [] p = "respond" -> 7
    [] OTHER -> 0

\* C13: within one request the pipeline only moves forward through LOAD,
\* BEFORE, DECIDE/MAIN, AFTER, FINALIZE and never comes back to a state; the
\* middleware is invoked at BEFORE before any other stage, the handler at
\* DECIDE after the middleware of a module that has one and before the
\* response hook, the response hook at AFTER, each at most once; and the
\* response is built from the response state at FINALIZE, after which no
\* stage is invoked.
C13_PipelineOrder ==
  [][/\ StageRank(pc) > 0 /\ pc' # pc =>
          \/ StageRank(pc') > StageRank(pc)
          \/ pc = "respond" /\ pc' = "serving"
     /\ calls'.middleware > calls.middleware =>
          pc = "before" /\ calls = NoCalls /\ calls'.middleware = 1
     /\ calls'.handler > calls.handler =>
          /\ pc = "decide"
          /\ calls.handler = 0 /\ calls'.handler = 1
          /\ calls.response_hook = 0 /\ calls'.response_hook = 0
          /\ calls.middleware = (IF module.middleware THEN 1 ELSE 0)
     /\ calls'.response_hook > calls.response_hook =>
          /\ pc = "after"
          /\ calls.response_hook = 0 /\ calls'.response_hook = 1
          /\ calls.middleware = (IF module.middleware THEN 1 ELSE 0)
          /\ calls'.handler = calls.handler
     /\ result'.kind = "ok" /\ result.kind # "ok" => pc = "finalize"
     /\ result.kind = "ok" => calls' = calls \/ calls' = NoCalls]_vars

C13_Witness ==
  /\ pc = "respond"
  /\ result.kind = "ok"
  /\ calls = [middleware |-> 1, handler |-> 1, response_hook |-> 1]
  /\ effect.middleware = "nop" /\ effect.handler = "created"
  /\ effect.response_hook = "hdrBad"

\* C14: when the script file cannot be read, its evaluation raises or it
\* returns something that is no table, no stage has been invoked, the
\* pipeline is over, and the answer is status 500 with a body that starts
\* with "Server Error: " and names the failure, and with no header of the
\* response state.
C14_LoadFailureIs500 ==
  load_outcome \in {"unreadable", "eval_error", "not_table"} =>
    /\ pc = "respond"
    /\ calls = NoCalls
    /\ raised = NoErrors
    /\ result.kind = "fatal"
    /\ result.status = 500
    /\ result.headers = {}
    /\ result.body =
         "Server Error: " \o
           (IF load_outcome = "unreadable"
            THEN "Failed to read handler script " \o script_path
                   \o ": No such file or directory"
            ELSE "Handler script failed to return a table: " \o load_outcome)

C14_Witness ==
  /\ pc = "respond"
  /\ load_outcome = "not_table"
  /\ script_path = "scripts/y.lua"
  /\ lua.res.status = LuaInt(403)
  /\ calls = NoCalls
  /\ result.status = 500
  /\ result.body = "Server Error: Handler script failed to return a table: not_table"

\* C15: an error raised by the middleware or by the response hook does not
\* end the pipeline: the step goes on to the next state with no response
\* built, the response state holds every write the stage made before the
\* error, only LOAD, the handler and FINALIZE produce the fatal answer, a
\* middleware that set 403 and then raised has the handler skipped, and
\* FINALIZE builds the response from the state so left.
C15_StageErrorsNonFatal ==
  [][/\ pc = "before" /\ raised'.middleware # "" =>
          /\ pc' = "decide"
          /\ result' = NoResponse
          /\ lua' = ApplyEffect(lua, effect'.middleware, route).lua
          /\ effect'.middleware = "status403" => lua'.res.status = LuaInt(403)
          /\ effect'.middleware = "created" =>
               lua'.res.status = LuaInt(201) /\ lua'.res.body = LuaStr("created")
     /\ pc = "after" /\ raised'.response_hook # "" =>
          /\ pc' = "finalize"
          /\ result' = NoResponse
          /\ lua' = ApplyEffect(lua, effect'.response_hook, route).lua
     /\ result'.kind = "fatal" =>
          \/ pc \in {"prepare", "load", "finalize"}
          \/ pc = "decide" /\ raised'.handler # ""
     /\ pc = "decide" /\ raised.middleware # "" /\ effect.middleware = "status403" =>
          pc' = "after" /\ calls'.handler = 0 /\ lua' = lua
     /\ /\ pc = "finalize" /\ pc' # pc
        /\ raised.middleware # "" \/ raised.response_hook # ""
        /\ FinalizeReadable(lua.res)
        => /\ result'.kind = "ok"
           /\ lua.res.body.t = "str" => result'.body = lua.res.body.s
           /\ lua.res.status.t = "int" /\ lua.res.status.i \in 0..65535 =>
                result'.status = lua.res.status.i]_vars

C15_Witness ==
  /\ pc = "respond"
  /\ module = [middleware |-> TRUE, handler |-> TRUE, response_hook |-> TRUE]
  /\ raised.middleware = "boom" /\ effect.middleware = "status403"
  /\ calls.handler = 0
  /\ raised.response_hook = "boom" /\ effect.response_hook = "recall"
  /\ result.kind = "ok"
  /\ result.status = 403

C17_DefaultsUntilBefore ==
  /\ pc = "before" => lua.res = DefaultResponse
  /\ pc \in {"after", "finalize"} /\ ~module.middleware /\ module.handler =>
       calls.handler = 1

\* C18: a request taken from the listener gets no response attempt before
\* the end of its processing and exactly one there, carrying the 404, the
\* pipeline's response or the 500; whatever the response and whether or not
\* it was delivered, the loop is then waiting for the next request; once the
\* socket is held the process never exits; and every request taken is
\* eventually answered.
C18_EveryRequestAnswered ==
  /\ [][/\ StageRank(pc) > 0 => delivery = "none"
        /\ StageRank(pc) > 0 /\ StageRank(pc') = 0 =>
             /\ pc = "respond" /\ pc' = "serving"
             /\ result.kind \in {"404", "ok", "fatal"}
             /\ delivery' \in {"sent", "failed"}
        /\ delivery' # delivery /\ delivery' # "none" => pc = "respond"
        /\ listener # "" => pc' # "exit" /\ listener' = listener]_vars
  /\ (StageRank(pc) > 0) ~> (pc = "serving" /\ delivery # "none")

C18_Witness ==
  /\ pc = "serving"
  /\ delivery = "failed"
  /\ lua.res.body = LuaNil
  /\ lua.res.status = LuaInt(201)

\* C19: when FINALIZE finds a body that is neither string nor number, a
\* headers field that is no table, or a header whose value is neither
\* string nor number, no response is built from the response state: the
\* request is answered with status 500, a body that starts with
\* "Server Error: " and none of the headers of the response state, and this
\* also when no stage raised an error.
C19_UnreadableStateIs500 ==
  [][/\ pc = "finalize" /\ pc' # pc
     /\ \/ lua.res.body.t \in {"nil", "bool"}
        \/ ~lua.res.headers_is_table
        \/ \E k \in DOMAIN lua.res.headers : lua.res.headers[k].t \in {"nil", "bool"}
     => /\ pc' = "respond"
        /\ result'.kind = "fatal"
        /\ result'.status = 500
        /\ result'.headers = {}
        /\ result'.body \in
             {"Server Error: " \o m :
                m \in {"Failed to get body from response table: error converting Lua value to String",
                       "error converting Lua nil to table",
                       "error converting Lua boolean to String"}}
        /\ calls' = calls /\ raised' = raised]_vars

C19_Witness ==
  /\ pc = "respond"
  /\ result.kind = "fatal" /\ result.src = "finalize"
  /\ raised = NoErrors
  /\ calls = [middleware |-> 1, handler |-> 1, response_hook |-> 1]
  /\ effect = [middleware |-> "nop", handler |-> "created", response_hook |-> "hdrFlag"]
  /\ result.status = 500
  /\ result.headers = {}

\* C20: the status code of a response built at FINALIZE from an integer
\* status is that status modulo 2^16: it lies in 0..65535, differs from the
\* status by a multiple of 65536, and equals it exactly when the status is
\* in 0..65535; 65736 is sent as 200 and -1 as 65535, as ordinary responses.
C20_StatusTruncatedTo16Bits ==
  pc = "respond" /\ result.kind = "ok" /\ lua.res.status.t = "int" =>
    LET s == lua.res.status.i
    IN /\ result.status \in 0..65535
       /\ (result.status - s) % 65536 = 0
       /\ result.status = s <=> s \in 0..65535
       /\ s = 65736 => result.status = 200
       /\ s = 0 - 1 => result.status = 65535

C20_Witness ==
  /\ pc = "respond"
  /\ result.kind = "ok"
  /\ raised = NoErrors
  /\ effect.handler = "statusBig"
  /\ lua.res.status = LuaInt(65736)
  /\ result.status = 200

====
